---- MODULE Spec2Model ----
(***************************************************************************)
(* AEGIS governance decision core: the policy evaluators, the DLP pattern  *)
(* scanner, the multi-layer security gateway, the trust and isolation      *)
(* tracker, the hash-chained audit ledger and the breach investigations.   *)
(*                                                                         *)
(* Intent names and rule-name patterns are sequences of tokens (a word, or *)
(* one of the separators "." and "*"); confidences are hundredths (0.9 is  *)
(* 90); trust is a whole number of points; time is a whole number of       *)
(* hours; a reason is a sequence of text pieces.                           *)
(***************************************************************************)
EXTENDS Integers, Sequences, FiniteSets, Bags, TLC

VARIABLES
    agents,          \* agent table: id -> record, or NoAgent when not issued
    ledger,          \* audit ledger: sequence of hash-chained entries
    investigations,  \* breach investigation table: sequence of records
    inflight,        \* evaluation requests past the policy/DLP layers
    now,             \* wall clock, in hours
    lastOp,          \* outcome of the last governance command
    chain,           \* ledger integrity: mismatch reported, incidents so far
    polReq,          \* request handed to the policy evaluators
    polRes,          \* their results
    app,             \* dashboard (App.jsx): component state and pending calls
    nodes,           \* WorkloadNodes: component state and pending calls
    sim              \* SimulatorOrchestrator: component state and runs

vars == <<agents, ledger, investigations, inflight, now, lastOp, chain,
          polReq, polRes, app, nodes, sim>>
govVars == <<agents, ledger, investigations, inflight, now, lastOp, chain>>
polVars == <<polReq, polRes>>
uiVars == <<app, nodes, sim>>

(***************************************************************************)
(* Policy: rule tables                                                     *)
(***************************************************************************)

NoRule == [name |-> <<>>]

\* intents.yaml of the v1 evaluator
V1Intents == <<
    [name |-> <<"MODIFY_RESOURCE">>, risk_level |-> "HIGH",
     required_fields |-> {"target", "action_type", "change_size"}],
    [name |-> <<"DELETE_RESOURCE">>, risk_level |-> "CRITICAL",
     required_fields |-> {"target", "reasoning_hash"}],
    [name |-> <<"READ_PII">>, risk_level |-> "MEDIUM",
     required_fields |-> {"data_source", "justification"}],
    [name |-> <<"SEND_EXTERNAL_REQUEST">>, risk_level |-> "MEDIUM",
     required_fields |-> {"url", "method", "payload_sample"}] >>

confidence_threshold == 90

\* constraints.environment_defaults: human_approval_required per environment
human_approval_required(environment) ==
    CASE environment = "production" -> TRUE
      [] environment = "staging" -> FALSE
      [] OTHER -> FALSE

\* enhanced intents.yaml of the v2 evaluator; a key the file leaves out is
\* FALSE, 0, "NONE" or {}
V2Intents == <<
    [name |-> <<"READ", ".", "PII">>, allowed |-> TRUE,
     escalation_only |-> FALSE, required_level |-> 5, risk_level |-> "MEDIUM",
     environment |-> {}],
    [name |-> <<"READ", ".", "METADATA">>, allowed |-> TRUE,
     escalation_only |-> FALSE, required_level |-> 3, risk_level |-> "LOW",
     environment |-> {}],
    [name |-> <<"READ", ".", "EXPERIMENTAL", ".", "*">>, allowed |-> FALSE,
     escalation_only |-> TRUE, required_level |-> 0, risk_level |-> "NONE",
     environment |-> {"staging", "dev"}],
    [name |-> <<"WRITE", ".", "*">>, allowed |-> FALSE,
     escalation_only |-> FALSE, required_level |-> 8, risk_level |-> "HIGH",
     environment |-> {}] >>

(***************************************************************************)
(* Policy: matching                                                        *)
(***************************************************************************)

\* next(i for i in intents if i['name'] == intent_name, None)
RECURSIVE FindIntent(_, _)
FindIntent(intents, intent_name) ==
    IF intents = <<>> THEN NoRule
    ELSE IF Head(intents).name = intent_name THEN Head(intents)
    ELSE FindIntent(Tail(intents), intent_name)

\* re.match("^" + regex + "$", s), regex = pattern with "." escaped and "*"
\* turned into ".*": every token matches itself, "*" any run of tokens
RECURSIVE RegexMatch(_, _)
RegexMatch(pattern, s) ==
    IF pattern = <<>> THEN s = <<>>
    ELSE IF Head(pattern) = "*"
         THEN RegexMatch(Tail(pattern), s)
              \/ (s # <<>> /\ RegexMatch(pattern, Tail(s)))
    ELSE s # <<>> /\ Head(s) = Head(pattern)
         /\ RegexMatch(Tail(pattern), Tail(s))

HasWildcard(pattern) == \E i \in 1..Len(pattern) : pattern[i] = "*"

RECURSIVE find_namespace_match(_, _)
find_namespace_match(intents, intent_name) ==
    IF intents = <<>> THEN NoRule
    ELSE IF HasWildcard(Head(intents).name)
            /\ RegexMatch(Head(intents).name, intent_name)
         THEN Head(intents)
    ELSE find_namespace_match(Tail(intents), intent_name)

find_exact_intent(intents, intent_name) == FindIntent(intents, intent_name)

(***************************************************************************)
(* Policy: evaluators                                                      *)
(***************************************************************************)

Verdict(d, r) == [decision |-> d, reason |-> r]

\* variant: an intent the table does not know passes
PolicyEvaluator_evaluate_permissive(intent_name, environment, confidence) ==
    LET intent_def == FindIntent(V1Intents, intent_name) IN
    IF intent_def = NoRule
    THEN Verdict("ALLOW", <<"Unknown intent: ">> \o intent_name)
    ELSE IF confidence < confidence_threshold
    THEN Verdict("DENY", <<"Confidence too low">>)
    ELSE IF human_approval_required(environment)
            /\ intent_def.risk_level \in {"HIGH", "CRITICAL"}
    THEN Verdict("ESCALATE", <<"Human approval required for high risk in production">>)
    ELSE IF environment = "production" /\ intent_def.risk_level = "CRITICAL"
    THEN Verdict("DENY", <<"Critical actions blocked in production by default">>)
    ELSE Verdict("ALLOW", <<"Policy requirements met">>)

\* PolicyEvaluator.evaluate (v1, engine.py)
PolicyEvaluator_evaluate(intent_name, environment, confidence) ==
    LET intent_def == FindIntent(V1Intents, intent_name) IN
    IF intent_def = NoRule
    THEN Verdict("DENY", <<"Unknown intent: ">> \o intent_name)
    ELSE IF confidence < confidence_threshold
    THEN Verdict("DENY", <<"Confidence too low">>)
    ELSE IF human_approval_required(environment)
            /\ intent_def.risk_level \in {"HIGH", "CRITICAL"}
    THEN Verdict("ESCALATE", <<"Human approval required for high risk in production">>)
    ELSE IF environment = "production" /\ intent_def.risk_level = "CRITICAL"
    THEN Verdict("DENY", <<"Critical actions blocked in production by default">>)
    ELSE Verdict("ALLOW", <<"Policy requirements met">>)

\* _evaluate_intent of the v2 evaluator: it is handed the rule alone, so that
\* of the pipeline only the allowed / escalation_only step can run
evaluate_intent(rule) ==
    IF ~rule.allowed
    THEN IF rule.escalation_only
         THEN Verdict("ESCALATE", <<"Intent requires review">>)
         ELSE Verdict("DENY", <<"Intent not allowed">>)
    ELSE Verdict("ALLOW", <<"Policy requirements met">>)

\* variant: an unmatched intent is escalated in every environment
PolicyEvaluatorV2_evaluate_escalating(intent_name, environment) ==
    LET exact_match == find_exact_intent(V2Intents, intent_name)
        namespace_match == find_namespace_match(V2Intents, intent_name)
    IN
    IF exact_match # NoRule THEN evaluate_intent(exact_match)
    ELSE IF namespace_match # NoRule
    THEN IF namespace_match.escalation_only
         THEN Verdict("ESCALATE", <<"Unknown intent ">> \o intent_name
                                  \o <<" in namespace, requires review">>)
         ELSE evaluate_intent(namespace_match)
    ELSE Verdict("ESCALATE",
                 <<"Unknown intent in non-production, escalating for review">>)

\* PolicyEvaluatorV2.evaluate
PolicyEvaluatorV2_evaluate(intent_name, environment) ==
    LET exact_match == find_exact_intent(V2Intents, intent_name)
        namespace_match == find_namespace_match(V2Intents, intent_name)
    IN
    IF exact_match # NoRule THEN evaluate_intent(exact_match)
    ELSE IF namespace_match # NoRule
    THEN IF namespace_match.escalation_only
         THEN Verdict("ESCALATE", <<"Unknown intent ">> \o intent_name
                                  \o <<" in namespace, requires review">>)
         ELSE evaluate_intent(namespace_match)
    ELSE IF environment \in {"staging", "dev"}
    THEN Verdict("ESCALATE",
                 <<"Unknown intent in non-production, escalating for review">>)
    ELSE Verdict("DENY", <<"Unknown intent in production">>)

(***************************************************************************)
(* Policy: the evaluators applied to bounded inputs                        *)
(***************************************************************************)

MaxNameLen == 3

NameTokens == {"READ", "WRITE", ".", "*", "X"}

RECURSIVE SeqsUpTo(_, _)
SeqsUpTo(S, n) ==
    IF n = 0 THEN {<<>>}
    ELSE LET shorter == SeqsUpTo(S, n - 1) IN
         shorter \cup {Append(s, x) : s \in shorter, x \in S}

RuleNames(intents) == {intents[i].name : i \in 1..Len(intents)}

IntentNames ==
    SeqsUpTo(NameTokens, MaxNameLen)
    \cup RuleNames(V1Intents) \cup RuleNames(V2Intents)
    \cup { <<"READ", ".", "EXPERIMENTAL", ".", "X">>,
           <<"READ", ".", "EXPERIMENTAL">>,
           <<"READ", "X", "PII">>,
           <<"WRITE", ".", "X", ".", "X">>,
           <<"READ_USER_PII">> }

Environments == {"production", "staging", "dev", "unknown"}

Confidences == {0, 89, 90, 100}

NoRequest ==
    [intent_name |-> <<"-">>, environment |-> "-", confidence |-> 0,
     fields |-> {}, data |-> <<"-">>, trust |-> 0]

\* the fields an intent may come with: all that its rule requires, all but
\* one of them, or none
FieldSets(intent_name) ==
    LET intent_def == FindIntent(V1Intents, intent_name) IN
    IF intent_def = NoRule THEN {{}}
    ELSE {intent_def.required_fields, {}}
         \cup {intent_def.required_fields \ {f} : f \in intent_def.required_fields}

\* no rule of the table matches, exactly or by wildcard
UnmatchedV1(intent_name) == FindIntent(V1Intents, intent_name) = NoRule

UnmatchedV2(intent_name) ==
    /\ find_exact_intent(V2Intents, intent_name) = NoRule
    /\ find_namespace_match(V2Intents, intent_name) = NoRule

(***************************************************************************)
(* DLP pattern scanner                                                     *)
(***************************************************************************)

Digits == {"0", "1", "2", "3", "4", "5", "6", "7", "8", "9"}

UpperCase ==
    {"A", "B", "C", "D", "E", "F", "G", "H", "I", "J", "K", "L", "M",
     "N", "O", "P", "Q", "R", "S", "T", "U", "V", "W", "X", "Y", "Z"}

LowerCase ==
    {"a", "b", "c", "d", "e", "f", "g", "h", "i", "j", "k", "l", "m",
     "n", "o", "p", "q", "r", "s", "t", "u", "v", "w", "x", "y", "z"}

\* characters that are not \w in the texts scanned here
NonWordChars == {" ", "-", ":", ".", ",", "\"", "@", "%", "+", "|"}

IsWordChar(c) == c \notin NonWordChars

\* \b at the gap before position i (between text[i-1] and text[i])
WordBoundary(text, i) ==
    LET before == i > 1 /\ IsWordChar(text[i - 1])
        after == i <= Len(text) /\ IsWordChar(text[i])
    IN before # after

\* r'\b\d{3}-\d{2}-\d{4}\b'
SsnShape == <<"d", "d", "d", "-", "d", "d", "-", "d", "d", "d", "d">>

\* end (exclusive) of the ssn match that starts at i, or 0
MatchSsn(text, i) ==
    IF /\ i + Len(SsnShape) - 1 <= Len(text)
       /\ WordBoundary(text, i)
       /\ \A k \in 1..Len(SsnShape) :
             IF SsnShape[k] = "d" THEN text[i + k - 1] \in Digits
             ELSE text[i + k - 1] = SsnShape[k]
       /\ WordBoundary(text, i + Len(SsnShape))
    THEN i + Len(SsnShape)
    ELSE 0

\* \d{4} at i
FourDigits(text, i) ==
    /\ i + 3 <= Len(text)
    /\ \A k \in 0..3 : text[i + k] \in Digits

\* [\s-]? at i: the separator is taken when it is there
SkipSeparator(text, i) ==
    IF i <= Len(text) /\ text[i] \in {" ", "-"} THEN i + 1 ELSE i

\* r'\b\d{4}[\s-]?\d{4}[\s-]?\d{4}[\s-]?\d{4}\b': end (exclusive) of the
\* match of the last `groups` groups starting at i, or 0
RECURSIVE MatchCardGroups(_, _, _)
MatchCardGroups(text, i, groups) ==
    IF ~FourDigits(text, i) THEN 0
    ELSE IF groups = 1
         THEN IF WordBoundary(text, i + 4) THEN i + 4 ELSE 0
    ELSE MatchCardGroups(text, SkipSeparator(text, i + 4), groups - 1)

MatchCreditCard(text, i) ==
    IF WordBoundary(text, i) THEN MatchCardGroups(text, i, 4) ELSE 0

\* end (exclusive) of the longest run of characters of the class from i on
RECURSIVE RunEnd(_, _, _)
RunEnd(text, i, class) ==
    IF i <= Len(text) /\ text[i] \in class THEN RunEnd(text, i + 1, class)
    ELSE i

SetMax(S) == CHOOSE x \in S : \A y \in S : y <= x

\* r'\b[A-Za-z0-9._%+-]+@[A-Za-z0-9.-]+\.[A-Z|a-z]{2,}\b': the local part
\* runs up to the "@"; the domain gives back characters down to its last
\* "." that two or more [A-Z|a-z] and a word boundary follow
MatchEmail(text, i) ==
    LET local == UpperCase \cup LowerCase \cup Digits \cup {".", "_", "%", "+", "-"}
        domain == UpperCase \cup LowerCase \cup Digits \cup {".", "-"}
        tld == UpperCase \cup LowerCase \cup {"|"}
        p == RunEnd(text, i, local)
        q == RunEnd(text, p + 1, domain)
        TldEnds(e) == {f \in (e + 3)..RunEnd(text, e + 1, tld) :
                          WordBoundary(text, f)}
        dots == {e \in (p + 2)..(q - 1) : text[e] = "." /\ TldEnds(e) # {}}
    IN
    IF /\ WordBoundary(text, i)
       /\ p > i
       /\ p <= Len(text)
       /\ text[p] = "@"
       /\ dots # {}
    THEN SetMax(TldEnds(SetMax(dots)))
    ELSE 0

\* r'\b[A-Z0-9]{32,}\b'
MatchApiKey(text, i) ==
    LET r == RunEnd(text, i, UpperCase \cup Digits)
        ends == {f \in (i + 32)..r : WordBoundary(text, f)}
    IN IF WordBoundary(text, i) /\ ends # {} THEN SetMax(ends) ELSE 0

\* \d{n} at i
NDigits(text, i, n) ==
    /\ i + n - 1 <= Len(text)
    /\ \A k \in 0..(n - 1) : text[i + k] \in Digits

\* [-.]? at i: the separator is taken when it is there
SkipDashOrDot(text, i) ==
    IF i <= Len(text) /\ text[i] \in {"-", "."} THEN i + 1 ELSE i

\* r'\b\d{3}[-.]?\d{3}[-.]?\d{4}\b'
MatchPhone(text, i) ==
    LET second == SkipDashOrDot(text, i + 3)
        third == SkipDashOrDot(text, second + 3)
    IN
    IF /\ WordBoundary(text, i)
       /\ NDigits(text, i, 3)
       /\ NDigits(text, second, 3)
       /\ NDigits(text, third, 4)
       /\ WordBoundary(text, third + 4)
    THEN third + 4
    ELSE 0

\* DLPScanner.PATTERNS, in the order of the dict
PATTERNS == <<"email", "ssn", "credit_card", "api_key", "phone">>

MatchEnd(pattern_name, text, i) ==
    CASE pattern_name = "email" -> MatchEmail(text, i)
      [] pattern_name = "ssn" -> MatchSsn(text, i)
      [] pattern_name = "credit_card" -> MatchCreditCard(text, i)
      [] pattern_name = "api_key" -> MatchApiKey(text, i)
      [] pattern_name = "phone" -> MatchPhone(text, i)

\* text[:2] + '*' * (len(text) - 4) + text[-2:], or '***' for short texts
redact(text) ==
    IF Len(text) <= 4 THEN <<"*", "*", "*">>
    ELSE [k \in 1..Len(text) |->
            IF k <= 2 \/ k > Len(text) - 2 THEN text[k] ELSE "*"]

\* re.finditer(regex, text): leftmost matches, scanning on after each one
RECURSIVE FindIter(_, _, _)
FindIter(pattern_name, text, pos) ==
    IF pos > Len(text) THEN <<>>
    ELSE LET e == MatchEnd(pattern_name, text, pos) IN
         IF e = 0 THEN FindIter(pattern_name, text, pos + 1)
         ELSE <<[type |-> pattern_name,
                 position |-> <<pos - 1, e - 1>>,
                 redacted |-> redact(SubSeq(text, pos, e - 1))]>>
              \o FindIter(pattern_name, text, e)

\* DLPScanner.scan: every pattern over the whole text, findings appended
RECURSIVE ScanPatterns(_, _)
ScanPatterns(patterns, text) ==
    IF patterns = <<>> THEN <<>>
    ELSE FindIter(Head(patterns), text, 1) \o ScanPatterns(Tail(patterns), text)

scan(text) == ScanPatterns(PATTERNS, text)

(***************************************************************************)
(* DLP pattern scanner of the integration guide (dlp_scanner.py)           *)
(***************************************************************************)

\* the match of \d{1,3} at i followed by the rest of the address, the longest
\* group first: end (exclusive) of the whole match, or 0
RECURSIVE MatchIpGroups(_, _, _)
MatchIpGroups(text, i, groups) ==
    LET Try(k) ==
            IF ~NDigits(text, i, k) THEN 0
            ELSE IF groups = 1
                 THEN IF WordBoundary(text, i + k) THEN i + k ELSE 0
            ELSE IF i + k <= Len(text) /\ text[i + k] = "."
                 THEN MatchIpGroups(text, i + k + 1, groups - 1)
            ELSE 0
    IN IF Try(3) # 0 THEN Try(3)
       ELSE IF Try(2) # 0 THEN Try(2)
       ELSE Try(1)

\* r'\b\d{1,3}\.\d{1,3}\.\d{1,3}\.\d{1,3}\b'
MatchIpAddress(text, i) ==
    IF WordBoundary(text, i) THEN MatchIpGroups(text, i, 4) ELSE 0

\* self.patterns: name, severity and description, in the order of the dict
patterns == <<
    [name |-> "email", severity |-> "MEDIUM",
     description |-> <<"Email address detected">>],
    [name |-> "ssn", severity |-> "CRITICAL",
     description |-> <<"Social Security Number pattern detected">>],
    [name |-> "credit_card", severity |-> "CRITICAL",
     description |-> <<"Credit card number pattern detected">>],
    [name |-> "api_key", severity |-> "HIGH",
     description |-> <<"API key pattern detected">>],
    [name |-> "phone", severity |-> "MEDIUM",
     description |-> <<"Phone number detected">>],
    [name |-> "ip_address", severity |-> "LOW",
     description |-> <<"IP address detected">>] >>

PatternMatchEnd(pattern_name, text, i) ==
    IF pattern_name = "ip_address" THEN MatchIpAddress(text, i)
    ELSE MatchEnd(pattern_name, text, i)

\* re.finditer(pattern_info['regex'], text), one finding per match
RECURSIVE PatternFindIter(_, _, _)
PatternFindIter(pattern_info, text, pos) ==
    IF pos > Len(text) THEN <<>>
    ELSE LET e == PatternMatchEnd(pattern_info.name, text, pos) IN
         IF e = 0 THEN PatternFindIter(pattern_info, text, pos + 1)
         ELSE <<[type |-> pattern_info.name,
                 severity |-> pattern_info.severity,
                 description |-> pattern_info.description,
                 position |-> <<pos - 1, e - 1>>,
                 matched_text |-> SubSeq(text, pos, e - 1),
                 redacted |-> redact(SubSeq(text, pos, e - 1))]>>
              \o PatternFindIter(pattern_info, text, e)

RECURSIVE PatternScan(_, _)
PatternScan(infos, text) ==
    IF infos = <<>> THEN <<>>
    ELSE PatternFindIter(Head(infos), text, 1) \o PatternScan(Tail(infos), text)

\* DLPScanner.scan of dlp_scanner.py
dlp_scanner_scan(text) == PatternScan(patterns, text)

\* [f for f in findings if f['severity'] == 'CRITICAL']
critical_findings(findings) ==
    SelectSeq(findings, LAMBDA f : f.severity = "CRITICAL")

(***************************************************************************)
(* Two-stage DLP scanner (EnhancedDLPScanner)                              *)
(***************************************************************************)

regex_patterns == <<"email", "ssn", "credit_card">>

\* Shannon entropy is kept in thousandths of a bit
entropy_threshold == 4500

\* round(1000 * log2(n)) for n = 1..64
Log2Milli ==
    << 0, 1000, 1585, 2000, 2322, 2585, 2807, 3000,
       3170, 3322, 3459, 3585, 3700, 3807, 3907, 4000,
       4087, 4170, 4248, 4322, 4392, 4459, 4524, 4585,
       4644, 4700, 4755, 4807, 4858, 4907, 4954, 5000,
       5044, 5087, 5129, 5170, 5209, 5248, 5285, 5322,
       5358, 5392, 5426, 5459, 5492, 5524, 5555, 5585,
       5615, 5644, 5672, 5700, 5728, 5755, 5781, 5807,
       5833, 5858, 5883, 5907, 5931, 5954, 5977, 6000 >>

\* re.findall(r'\b\w{20,}\b', text): the runs of word characters of twenty
\* characters or more
RECURSIVE Tokens(_, _)
Tokens(text, pos) ==
    IF pos > Len(text) THEN <<>>
    ELSE IF ~IsWordChar(text[pos]) THEN Tokens(text, pos + 1)
    ELSE LET e == RunEnd(text, pos, {text[k] : k \in 1..Len(text)} \ NonWordChars)
         IN (IF e - pos >= 20
             THEN <<SubSeq(text, pos, e - 1)>> ELSE <<>>)
            \o Tokens(text, e)

\* sum of count * log2(count) over the characters of the set
RECURSIVE CountLogSum(_, _)
CountLogSum(token, chars) ==
    IF chars = {} THEN 0
    ELSE LET c == CHOOSE x \in chars : TRUE
             count == Cardinality({k \in 1..Len(token) : token[k] = c})
         IN count * Log2Milli[count] + CountLogSum(token, chars \ {c})

\* _shannon_entropy: -sum(p * log2(p)) = log2(n) - sum(count*log2(count)) / n
shannon_entropy(token) ==
    IF token = <<>> THEN 0
    ELSE LET n == Len(token) IN
         (n * Log2Milli[n]
            - CountLogSum(token, {token[k] : k \in 1..n})) \div n

\* _entropy_scan: one finding per token above the threshold
RECURSIVE EntropyFindings(_)
EntropyFindings(tokens) ==
    IF tokens = <<>> THEN <<>>
    ELSE LET token == Head(tokens)
             entropy == shannon_entropy(token)
         IN (IF entropy > entropy_threshold
             THEN <<[type |-> "high_entropy_token",
                     severity |-> "HIGH",
                     description |-> <<"Potential secret/token detected (entropy: ",
                                       ToString(entropy), ")">>,
                     token_length |-> Len(token),
                     redacted |-> SubSeq(token, 1, 4) \o <<".", ".", ".">>
                                  \o SubSeq(token, Len(token) - 3, Len(token))]>>
             ELSE <<>>)
            \o EntropyFindings(Tail(tokens))

entropy_scan(text) == EntropyFindings(Tokens(text, 1))

is_outbound_intent(intent) ==
    intent \in {<<"SEND_EXTERNAL_REQUEST">>, <<"SEND_EMAIL">>,
                <<"EXPORT_DATA">>, <<"WRITE_EXTERNAL">>}

\* _regex_scan: the three regex patterns, findings as the first scanner's
regex_scan(text) == ScanPatterns(regex_patterns, text)

\* EnhancedDLPScanner.scan: regex stage, then entropy for outbound intents
EnhancedDLPScanner_scan(text, intent_context) ==
    regex_scan(text)
    \o (IF is_outbound_intent(intent_context) THEN entropy_scan(text) ELSE <<>>)

(***************************************************************************)
(* Multi-layer security gateway                                            *)
(***************************************************************************)

NoData == <<"<no data>">>

\* json.dumps of a string: the text between double quotes
json_dumps(data) == <<"\"">> \o data \o <<"\"">>

\* variant: of the two critical types only credit_card is looked for
CriticalTypes_cards_only(findings) ==
    LET cards == SelectSeq(findings, LAMBDA f : f.type = "credit_card")
    IN [k \in 1..Len(cards) |-> cards[k].type]

\* [f['type'] for f in critical]
RECURSIVE CriticalTypes(_)
CriticalTypes(findings) ==
    IF findings = <<>> THEN <<>>
    ELSE IF Head(findings).type \in {"ssn", "credit_card"}
         THEN <<Head(findings).type>> \o CriticalTypes(Tail(findings))
    ELSE CriticalTypes(Tail(findings))

\* Layers 1 and 2 of AEGISSecurityGateway.evaluate_request: they read the
\* request alone
PolicyAndDlpLayers(request) ==
    LET policy_result == PolicyEvaluator_evaluate(request.intent_name,
                             request.environment, request.confidence)
        findings == IF request.data = NoData THEN <<>>
                    ELSE scan(json_dumps(request.data))
        critical == CriticalTypes(findings)
    IN
    IF policy_result.decision # "ALLOW"
    THEN [decision |-> "DENY", layer |-> "Policy", reason |-> policy_result.reason]
    ELSE IF critical # <<>>
    THEN [decision |-> "DENY", layer |-> "DLP",
          reason |-> <<"Sensitive data detected: ">> \o critical]
    ELSE [decision |-> "ALLOW", layer |-> "None", reason |-> <<>>]

TrustFloor == 50

\* Layer 3 and the final answer: they read the agent's trust
TrustLayer(passed, trust) ==
    IF passed.decision # "ALLOW" THEN passed
    ELSE IF trust < TrustFloor
    THEN [decision |-> "DENY", layer |-> "Trust",
          reason |-> <<"Agent trust too low: ", ToString(trust), "%">>]
    ELSE [decision |-> "ALLOW", layer |-> "None",
          reason |-> <<"All security checks passed">>]

evaluate_request(request, trust) == TrustLayer(PolicyAndDlpLayers(request), trust)

\* evaluate_with_dlp of the integration guide, from the policy result on
evaluate_with_dlp(policy_result, data) ==
    LET findings == dlp_scanner_scan(data)
        critical == critical_findings(findings)
    IN
    IF policy_result.decision = "DENY"
    THEN [decision |-> "DENY", reason |-> policy_result.reason, findings |-> <<>>]
    ELSE IF critical # <<>>
    THEN [decision |-> "DENY",
          reason |-> <<"Attempted to transmit sensitive data: ">>
                     \o [k \in 1..Len(critical) |-> critical[k].type],
          findings |-> findings]
    ELSE [decision |-> "ALLOW", reason |-> <<"No sensitive data detected">>,
          findings |-> findings]

\* "SSN: 123-45-6789"
SsnPayload ==
    <<"S", "S", "N", ":", " ", "1", "2", "3", "-", "4", "5", "-",
      "6", "7", "8", "9">>

\* "1234 5678 9012 3456"
CardPayload ==
    <<"1", "2", "3", "4", " ", "5", "6", "7", "8", " ",
      "9", "0", "1", "2", " ", "3", "4", "5", "6">>

\* "a@b.co 555.123.4567 10.0.0.1 ABCDEFGHIJKLMNOPQRSTUVWXYZ012345"
ContactPayload ==
    <<"a", "@", "b", ".", "c", "o", " ",
      "5", "5", "5", ".", "1", "2", "3", ".", "4", "5", "6", "7", " ",
      "1", "0", ".", "0", ".", "0", ".", "1", " ",
      "A", "B", "C", "D", "E", "F", "G", "H", "I", "J", "K", "L", "M",
      "N", "O", "P", "Q", "R", "S", "T", "U", "V", "W", "X", "Y", "Z",
      "0", "1", "2", "3", "4", "5">>

Payloads == {NoData, <<"o", "k">>, SsnPayload, CardPayload, ContactPayload}

NoFindings == [gateway |-> <<>>, guide |-> <<>>, enhanced |-> <<>>]

\* what each scanner returns for a payload: the gateway's scanner on the
\* serialized payload, the guide's and the two-stage scanner on the payload;
\* the two-stage scanner reads of the intent only whether it is outbound
Findings ==
    [d \in Payloads \ {NoData} |->
        [gateway |-> scan(json_dumps(d)),
         guide |-> evaluate_with_dlp(Verdict("ALLOW", <<>>), d).findings,
         outbound |-> EnhancedDLPScanner_scan(d, <<"SEND_EXTERNAL_REQUEST">>),
         internal |-> EnhancedDLPScanner_scan(d, <<"READ_PII">>)]]

\* the findings of the three scanners for one request
FindingsOf(intent_name, data) ==
    IF data = NoData THEN NoFindings
    ELSE [gateway |-> Findings[data].gateway,
          guide |-> Findings[data].guide,
          enhanced |-> IF is_outbound_intent(intent_name)
                       THEN Findings[data].outbound
                       ELSE Findings[data].internal]

Trusts == {0, 49, 50, 100}

NoVerdict == [decision |-> "-", reason |-> <<"-">>]

\* one request handed to both evaluators and to the gateway
PolicyEvaluate(intent_name, environment, confidence, fields, data, trust) ==
    /\ polReq' = [intent_name |-> intent_name, environment |-> environment,
                  confidence |-> confidence, fields |-> fields,
                  data |-> data, trust |-> trust]
    /\ polRes' =
         [v1 |-> PolicyEvaluator_evaluate(intent_name, environment, confidence),
          v2 |-> PolicyEvaluatorV2_evaluate(intent_name, environment),
          gateway |-> evaluate_request(polReq', trust),
          findings |-> FindingsOf(intent_name, data)]
    /\ UNCHANGED <<govVars, uiVars>>

(***************************************************************************)
(* Trust and isolation tracker                                             *)
(***************************************************************************)

AgentIds == {"a1", "a2"}

\* the order in which a fleet-wide command walks the agent table
AgentOrder == <<"a1", "a2">>

NoAgent == [status |-> "NONE"]

Min(x, y) == IF x <= y THEN x ELSE y

Max(x, y) == IF x >= y THEN x ELSE y

initial_budget == 100

decay_rate == 10

\* RiskBudgetTracker.get_intent_risk_cost: risk_costs.get(risk_level, 10)
get_intent_risk_cost(risk_level) ==
    CASE risk_level = "LOW" -> 5
      [] risk_level = "MEDIUM" -> 15
      [] risk_level = "HIGH" -> 30
      [] risk_level = "CRITICAL" -> 50
      [] OTHER -> 10

\* extra points for a DENY that repeats the agent's immediately prior DENY
RepeatPenalty == 10

\* a repeat counts when fewer than this many hours lie between the two
RepeatWindow == 1

\* variant: the score is not held at zero
apply_penalty_unclamped(trust, points) == trust - points

\* TrustVector.apply_penalty: max(0, score - points)
apply_penalty(trust, points) == Max(0, trust - points)

\* RiskBudgetTracker.get_current_budget: min(initial, score + hours * rate)
Recover(trust, hours_elapsed) ==
    Min(initial_budget, trust + hours_elapsed * decay_rate)

IsolationLevel(trust) == trust \div 10

Mode(level) ==
    IF level >= 8 THEN "FULL_ACCESS"
    ELSE IF level >= 1 THEN "REDUCED"
    ELSE "ISOLATED"

\* the agent record for a trust score; REVOKED is never left by a decision
AgentAt(trust, was_revoked) ==
    [trust |-> trust,
     level |-> IsolationLevel(trust),
     mode |-> Mode(IsolationLevel(trust)),
     status |-> IF was_revoked \/ IsolationLevel(trust) = 0
                THEN "REVOKED" ELSE "Active"]

\* variant: the level column is filled with the trust score
NewAgent_level_is_trust ==
    [trust |-> 100, level |-> 100, mode |-> "FULL_ACCESS", status |-> "Active"]

\* Agent(trust=100.0, status="Active", level=10, mode="FULL_ACCESS")
NewAgent ==
    [trust |-> 100, level |-> 10, mode |-> "FULL_ACCESS", status |-> "Active"]

\* apply(agent, decision): the agent after one decision
apply(agent, decision, risk_level, repeat, hours_elapsed) ==
    LET revoked == agent.status = "REVOKED" IN
    CASE decision = "DENY" ->
           AgentAt(apply_penalty(agent.trust,
                       get_intent_risk_cost(risk_level)
                       + (IF repeat THEN RepeatPenalty ELSE 0)), revoked)
      [] decision = "ALLOW" ->
           AgentAt(Recover(agent.trust, hours_elapsed), revoked)
      [] OTHER -> agent

RevokedAgent == AgentAt(0, TRUE)

(***************************************************************************)
(* Audit ledger                                                            *)
(***************************************************************************)

\* AuditLog.previous_hash of the first entry; a hash is the genesis mark
\* followed by everything that was hashed, so that SHA-256 is collision-free
GenesisHash == <<"0">>

\* the hashed content of an entry: the entry without its two hashes
Body(e) ==
    [id |-> e.id, timestamp |-> e.timestamp, ai_id |-> e.ai_id,
     intent |-> e.intent, decision |-> e.decision, reason |-> e.reason]

\* variant: of the data only the id goes into the hash
Hash_without_data(prev_hash, body) == Append(prev_hash, [id |-> body.id])

\* SHA-256(prev_hash || data)
Hash(prev_hash, body) == Append(prev_hash, body)

\* variant: the link is taken from the head of the chain
LastHash_of_head(l) == IF l = <<>> THEN GenesisHash ELSE l[1].current_hash

LastHash(l) == IF l = <<>> THEN GenesisHash ELSE l[Len(l)].current_hash

NextSeq(l) == Len(l) + 1

\* variant: the entry is not written
LedgerAppend_entry_dropped(l, ai_id, intent, decision, reason, timestamp) == l

\* append(entry): the ledger with the entry chained to its end
LedgerAppend(l, ai_id, intent, decision, reason, timestamp) ==
    LET body == [id |-> NextSeq(l), timestamp |-> timestamp, ai_id |-> ai_id,
                 intent |-> intent, decision |-> decision, reason |-> reason]
        prev == LastHash(l)
    IN Append(l, [id |-> body.id, timestamp |-> timestamp, ai_id |-> ai_id,
                  intent |-> intent, decision |-> decision, reason |-> reason,
                  previous_hash |-> prev, current_hash |-> Hash(prev, body)])

\* the stored link and the recomputed hash of entry i
EntryIntact(l, i) ==
    /\ l[i].previous_hash = (IF i = 1 THEN GenesisHash ELSE l[i - 1].current_hash)
    /\ l[i].current_hash = Hash(l[i].previous_hash, Body(l[i]))

\* verify(genesis, latest)
verify(l) == \A i \in 1..Len(l) : EntryIntact(l, i)

\* variant: appends go on after a mismatch was reported
CanAppend_always(mismatch_reported) == TRUE

\* ChainIntegrityError halts further appends pending manual reconciliation
CanAppend(mismatch_reported) == ~mismatch_reported

\* the longest prefix of the ledger that verifies
RECURSIVE VerifiedPrefix(_)
VerifiedPrefix(l) ==
    IF verify(l) THEN l ELSE VerifiedPrefix(SubSeq(l, 1, Len(l) - 1))

\* index of the agent's latest entry, or 0
LastEntryOf(l, ai_id) ==
    LET mine == {i \in 1..Len(l) : l[i].ai_id = ai_id} IN
    IF mine = {} THEN 0 ELSE CHOOSE i \in mine : \A j \in mine : j <= i

Decisions == {"ALLOW", "DENY", "ESCALATE"}

\* variant: no DENY counts as a repeat
IsRepeat_never(l, ai_id, intent, t) == FALSE

\* RETRY_AFTER_DENIAL: the agent's last entry is a DENY of the same intent,
\* less than RepeatWindow hours ago
IsRepeat(l, ai_id, intent, t) ==
    LET k == LastEntryOf(l, ai_id) IN
    /\ k # 0
    /\ l[k].decision = "DENY"
    /\ l[k].intent = intent
    /\ t - l[k].timestamp < RepeatWindow

HoursSinceLast(l, ai_id, t) ==
    LET k == LastEntryOf(l, ai_id) IN
    IF k = 0 THEN 0 ELSE t - l[k].timestamp

(***************************************************************************)
(* Breach investigations                                                   *)
(***************************************************************************)

\* index of the agent's latest investigation, or 0
CurrentInvestigation(invs, agent_id) ==
    LET mine == {i \in 1..Len(invs) : invs[i].agent_id = agent_id} IN
    IF mine = {} THEN 0 ELSE CHOOSE i \in mine : \A j \in mine : j <= i

HasOpenInvestigation(invs, agent_id) ==
    LET k == CurrentInvestigation(invs, agent_id) IN
    k # 0 /\ invs[k].status = "UNDER_INVESTIGATION"

\* the DENY events of the agent, oldest first
RECURSIVE DenyTimeline(_, _)
DenyTimeline(l, ai_id) ==
    IF l = <<>> THEN <<>>
    ELSE LET rest == DenyTimeline(SubSeq(l, 1, Len(l) - 1), ai_id)
             e == l[Len(l)]
         IN IF e.ai_id = ai_id /\ e.decision = "DENY"
            THEN Append(rest, [event |-> e.intent, timestamp |-> e.timestamp])
            ELSE rest

\* a store keyed by agent id alone: a second investigation of the agent
\* takes the place of the first
OpenInvestigation_overwrite(invs, agent_id, before, opened_at, breach_type, detection, timeline) ==
    LET rec == [agent_id |-> agent_id,
                opened_at |-> opened_at,
                breach_type |-> breach_type,
                severity |-> "CRITICAL",
                detection_mechanism |-> detection,
                evidence |-> [previous_trust |-> before.trust,
                              previous_status |-> before.status,
                              previous_level |-> before.level,
                              timeline |-> timeline],
                status |-> "UNDER_INVESTIGATION"]
        k == CurrentInvestigation(invs, agent_id)
    IN IF k = 0 THEN Append(invs, rec) ELSE [invs EXCEPT ![k] = rec]

\* open(agent, reason, evidence): the snapshot is taken here, once
OpenInvestigation(invs, agent_id, before, opened_at, breach_type, detection, timeline) ==
    Append(invs,
        [agent_id |-> agent_id,
         opened_at |-> opened_at,
         breach_type |-> breach_type,
         severity |-> "CRITICAL",
         detection_mechanism |-> detection,
         evidence |-> [previous_trust |-> before.trust,
                       previous_status |-> before.status,
                       previous_level |-> before.level,
                       timeline |-> timeline],
         status |-> "UNDER_INVESTIGATION"])

\* transition(agentId, newStatus) on the agent's current investigation
Transition(invs, agent_id, new_status) ==
    [invs EXCEPT ![CurrentInvestigation(invs, agent_id)].status = new_status]

(***************************************************************************)
(* Governance orchestrator: state machine                                  *)
(***************************************************************************)

\* useState of App: no agents shown, no lockdown; nothing pending
AppInit ==
    [agents |-> [a \in AgentIds |-> NoAgent], lockdown |-> FALSE,
     notification |-> "null", purge |-> "idle", fetches |-> {}]

\* JavaScript null
Null == [null |-> TRUE]

\* no handler of the component has run yet
NoEvent == [kind |-> "none", id |-> "-"]

\* useState of WorkloadNodes; the agents prop is empty until the first fetch
NodesInit ==
    [agents |-> [a \in AgentIds |-> NoAgent],
     selectedAgent |-> Null, investigation |-> Null, loading |-> FALSE,
     requests |-> {}, post |-> "none", event |-> NoEvent]

\* useState of SimulatorOrchestrator
SimInit ==
    [selectedScenario |-> Null, isRunning |-> FALSE, results |-> Null,
     liveEvents |-> <<>>, currentStep |-> 0, runs |-> {}, started |-> 0]

MaxLedger == 3

MaxInflight == 2

MaxTime == 1

GatewayIntents ==
    { <<"SEND_EXTERNAL_REQUEST">>, <<"MODIFY_RESOURCE">>, <<"DELETE_RESOURCE">>,
      <<"READ_USER_PII">> }

GatewayEnvironments == {"production"}

GatewayConfidences == {95}

NoOp == [op |-> "none", agent_id |-> "-", result |-> "-"]

Op(op, agent_id, result) == [op |-> op, agent_id |-> agent_id, result |-> result]

Issued(tbl) == {a \in AgentIds : tbl[a] # NoAgent}

Init ==
    /\ agents = [a \in AgentIds |-> NoAgent]
    /\ ledger = <<>>
    /\ investigations = <<>>
    /\ inflight = EmptyBag
    /\ now = 0
    /\ lastOp = NoOp
    /\ chain = [halted |-> FALSE, incidents |-> 0]
    /\ polReq = NoRequest
    /\ polRes = [v1 |-> NoVerdict, v2 |-> NoVerdict, gateway |-> NoVerdict,
                 findings |-> NoFindings]
    /\ app = AppInit
    /\ nodes = NodesInit
    /\ sim = SimInit

\* POST identity.issue(agentId)
Issue(a) ==
    /\ agents[a] = NoAgent
    /\ agents' = [agents EXCEPT ![a] = NewAgent]
    /\ lastOp' = NoOp
    /\ UNCHANGED <<ledger, investigations, inflight, now, chain, polVars, uiVars>>

\* time passes
Tick ==
    /\ now < MaxTime
    /\ now' = now + 1
    /\ lastOp' = NoOp
    /\ UNCHANGED <<agents, ledger, investigations, inflight, chain, polVars, uiVars>>

RiskOf(intent_name) ==
    LET intent_def == FindIntent(V1Intents, intent_name) IN
    IF intent_def = NoRule THEN "NONE" ELSE intent_def.risk_level

\* the policy and DLP layers on one request: they read no shared state
Screen(intent_name, environment, confidence, data) ==
    [intent |-> intent_name,
     passed |-> PolicyAndDlpLayers(
                    [intent_name |-> intent_name, environment |-> environment,
                     confidence |-> confidence, data |-> data]),
     risk_level |-> RiskOf(intent_name)]

\* every request of the gateway, screened
Screened ==
    { Screen(n, e, c, d) : n \in GatewayIntents, e \in GatewayEnvironments,
                           c \in GatewayConfidences, d \in Payloads }

ConcurrentIntents == {<<"SEND_EXTERNAL_REQUEST">>, <<"DELETE_RESOURCE">>}

\* the requests that are sent concurrently
ScreenedConcurrent ==
    { Screen(n, e, c, NoData) : n \in ConcurrentIntents,
                                e \in GatewayEnvironments,
                                c \in GatewayConfidences }

\* an evaluation that has read the agent's score:
\* current = self.get_current_budget(agent_id)
Pending(a, s) ==
    [agent_id |-> a, intent |-> s.intent, passed |-> s.passed,
     risk_level |-> s.risk_level, current |-> agents[a].trust]

\* POST evaluate(agentId, intent), first half: the policy and DLP layers run
\* and the agent's score is read
Submit(a, s) ==
    /\ agents[a] # NoAgent
    /\ BagCardinality(inflight) < MaxInflight
    /\ inflight' = inflight (+) SetToBag({Pending(a, s)})
    /\ lastOp' = NoOp
    /\ UNCHANGED <<agents, ledger, investigations, now, chain, polVars, uiVars>>

\* the trust layer, the tracker update, the ledger append and the
\* investigation of one evaluation; the new score is computed from the score
\* that was read: new_budget = current - intent_risk, then the update
CommitEffect(r) ==
    \/ /\ agents[r.agent_id] = NoAgent
       /\ lastOp' = Op("evaluate", r.agent_id, "UnknownAgent")
       /\ UNCHANGED <<agents, ledger, investigations>>
    \/ /\ agents[r.agent_id] # NoAgent
       /\ CanAppend(chain.halted)
       /\ Len(ledger) < MaxLedger
       /\ LET a == r.agent_id
              stored == agents[a]
              before == [stored EXCEPT !.trust = r.current]
              result == TrustLayer(r.passed, before.trust)
              after == apply(before, result.decision, r.risk_level,
                             IsRepeat(ledger, a, r.intent, now),
                             HoursSinceLast(ledger, a, now))
              grown == LedgerAppend(ledger, a, r.intent, result.decision,
                                    result.reason, now)
          IN /\ agents' = [agents EXCEPT ![a] = after]
             /\ ledger' = grown
             /\ investigations' =
                  IF before.status # "REVOKED" /\ after.status = "REVOKED"
                  THEN OpenInvestigation(investigations, a, stored, Len(grown),
                           "TRUST_EXHAUSTED", result.layer,
                           DenyTimeline(grown, a))
                  ELSE investigations
             /\ lastOp' = Op("evaluate", a, result.decision)

\* second half: the score is written and the entry appended, the append
\* being under the ledger's append lock
Commit(r) ==
    /\ BagIn(r, inflight)
    /\ inflight' = inflight (-) SetToBag({r})
    /\ CommitEffect(r)
    /\ UNCHANGED <<now, chain, polVars, uiVars>>

\* POST evaluate(agentId, intent) served without another request in between
Evaluate(a, s) ==
    /\ agents[a] # NoAgent
    /\ CommitEffect(Pending(a, s))
    /\ UNCHANGED <<inflight, now, chain, polVars, uiVars>>

\* the ledger after a purge entry for each of the listed agents
RECURSIVE PurgeEntries(_, _, _)
PurgeEntries(l, ids, t) ==
    IF ids = <<>> THEN l
    ELSE PurgeEntries(
             LedgerAppend(l, Head(ids), <<"governance.purge">>, "PURGED",
                          <<"Global purge">>, t),
             Tail(ids), t)

\* variant: a record is created for the first agent of the table only
PurgeInvestigations_first_only(invs, tbl, l, ids, t) ==
    IF ids = <<>> THEN invs
    ELSE OpenInvestigation(invs, Head(ids), tbl[Head(ids)], NextSeq(l),
             "GLOBAL_SECURITY_INCIDENT", "Manual intervention",
             <<[event |-> <<"governance.purge">>, timestamp |-> t]>>)

\* the investigations after a purge of the listed agents: for each agent a
\* record is created, then the agent is revoked
RECURSIVE PurgeInvestigations(_, _, _, _, _)
PurgeInvestigations(invs, tbl, l, ids, t) ==
    IF ids = <<>> THEN invs
    ELSE LET a == Head(ids)
             opened == OpenInvestigation(invs, a, tbl[a], NextSeq(l),
                           "GLOBAL_SECURITY_INCIDENT", "Manual intervention",
                           <<[event |-> <<"governance.purge">>, timestamp |-> t]>>)
         IN PurgeInvestigations(opened, tbl,
                LedgerAppend(l, a, <<"governance.purge">>, "PURGED", <<"Global purge">>, t),
                Tail(ids), t)

IssuedInOrder(tbl) == SelectSeq(AgentOrder, LAMBDA a : tbl[a] # NoAgent)

\* what a purge does to the agent table, the ledger and the investigations
PurgeEffect ==
    LET ids == IssuedInOrder(agents) IN
    /\ CanAppend(chain.halted)
    /\ Len(ledger) + Len(ids) <= MaxLedger
    /\ agents' = [a \in AgentIds |->
                    IF agents[a] = NoAgent THEN NoAgent ELSE RevokedAgent]
    /\ ledger' = PurgeEntries(ledger, ids, now)
    /\ investigations' = PurgeInvestigations(investigations, agents, ledger, ids, now)
    /\ lastOp' = Op("purge", "-", "OK")

\* POST governance.purge()
Purge ==
    /\ PurgeEffect
    /\ UNCHANGED <<inflight, now, chain, polVars, uiVars>>

\* variant: any investigation will do, whatever its status
RestoreLegal_any_status(invs, a) == CurrentInvestigation(invs, a) # 0

RestoreLegal(invs, a) == HasOpenInvestigation(invs, a)

\* variant: the mode column is left as the revocation set it
RestoredAgent_mode_kept ==
    [trust |-> 100, level |-> 10, mode |-> "ISOLATED", status |-> "Active"]

\* restore: trust=100, level=10, status=ACTIVE, mode=FULL_ACCESS
RestoredAgent ==
    [trust |-> 100, level |-> 10, mode |-> "FULL_ACCESS", status |-> "Active"]

\* POST agent.restore(agentId, justification)
Restore(a) ==
    \/ /\ RestoreLegal(investigations, a)
       /\ CanAppend(chain.halted)
       /\ Len(ledger) < MaxLedger
       /\ agents' = [agents EXCEPT ![a] = RestoredAgent]
       /\ investigations' = Transition(investigations, a, "RESTORED")
       /\ ledger' = LedgerAppend(ledger, a, <<"agent.restore">>, "RESTORED",
                                 <<"Restored by operator">>, now)
       /\ lastOp' = Op("restore", a, "OK")
       /\ UNCHANGED <<inflight, now, chain, polVars, uiVars>>
    \/ /\ ~RestoreLegal(investigations, a)
       /\ lastOp' = Op("restore", a, "IllegalTransitionError")
       /\ UNCHANGED <<agents, ledger, investigations, inflight, now, chain, polVars, uiVars>>

\* variant: any investigation will do, whatever its status
ConfirmLegal_any_status(invs, a) == CurrentInvestigation(invs, a) # 0

ConfirmLegal(invs, a) == HasOpenInvestigation(invs, a)

\* POST agent.confirmBreach(agentId, notes)
ConfirmBreach(a) ==
    \/ /\ ConfirmLegal(investigations, a)
       /\ CanAppend(chain.halted)
       /\ Len(ledger) < MaxLedger
       /\ investigations' = Transition(investigations, a, "CONFIRMED")
       /\ ledger' = LedgerAppend(ledger, a, <<"agent.confirmBreach">>, "CONFIRMED",
                                 <<"Breach confirmed by operator">>, now)
       /\ lastOp' = Op("confirmBreach", a, "OK")
       /\ UNCHANGED <<agents, inflight, now, chain, polVars, uiVars>>
    \/ /\ ~ConfirmLegal(investigations, a)
       /\ lastOp' = Op("confirmBreach", a, "IllegalTransitionError")
       /\ UNCHANGED <<agents, ledger, investigations, inflight, now, chain, polVars, uiVars>>

\* POST /simulator/reset: "Wipe all audit trails and agent records"
Reset ==
    /\ agents' = [a \in AgentIds |-> NoAgent]
    /\ ledger' = <<>>
    /\ investigations' = <<>>
    /\ lastOp' = Op("reset", "-", "OK")
    /\ UNCHANGED <<inflight, now, chain, polVars, uiVars>>

Next ==
    \/ \E a \in AgentIds : Issue(a)
    \/ Tick
    \/ \E a \in AgentIds, s \in Screened : Evaluate(a, s)
    \/ Purge
    \/ \E a \in AgentIds : Restore(a)
    \/ \E a \in AgentIds : ConfirmBreach(a)
    \/ Reset

Spec == Init /\ [][Next]_vars

\* the same machine with evaluations in two steps, the read of the score and
\* its update, so that they interleave
ConcNext ==
    \/ \E a \in AgentIds : Issue(a)
    \/ \E a \in AgentIds, s \in ScreenedConcurrent : Submit(a, s)
    \/ \E r \in BagToSet(inflight) : Commit(r)
    \/ Purge
    \/ \E a \in AgentIds : Restore(a)
    \/ \E a \in AgentIds : ConfirmBreach(a)
    \/ Reset

ConcSpec == Init /\ [][ConcNext]_vars

\* one request per behaviour: the evaluators keep nothing between requests
PolicyNext ==
    /\ polReq = NoRequest
    /\ \E n \in IntentNames, e \in Environments, c \in Confidences,
          d \in Payloads, t \in Trusts :
             \E f \in FieldSets(n) : PolicyEvaluate(n, e, c, f, d, t)

PolicySpec == Init /\ [][PolicyNext]_vars

(***************************************************************************)
(* Ledger integrity: a stored entry is altered, verification, halt         *)
(***************************************************************************)

MaxIncidents == 1

\* somebody with access to the store rewrites the decision of an entry
Tamper(i, d) ==
    /\ ~chain.halted
    /\ chain.incidents < MaxIncidents
    /\ verify(ledger)
    /\ i \in 1..Len(ledger)
    /\ ledger[i].decision # d
    /\ ledger' = [ledger EXCEPT ![i].decision = d]
    /\ chain' = [chain EXCEPT !.incidents = @ + 1]
    /\ lastOp' = NoOp
    /\ UNCHANGED <<agents, investigations, inflight, now, polVars, uiVars>>

\* verify(genesis, latest): a mismatch is reported as ChainIntegrityError
VerifyLedger ==
    /\ chain' = [chain EXCEPT !.halted = (@ \/ ~verify(ledger))]
    /\ lastOp' = Op("verify", "-",
                    IF verify(ledger) THEN "OK" ELSE "ChainIntegrityError")
    /\ UNCHANGED <<agents, ledger, investigations, inflight, now, polVars, uiVars>>

\* a command that would append is refused while the ledger is halted
Refuse(op, a) ==
    /\ ~CanAppend(chain.halted)
    /\ lastOp' = Op(op, a, "ChainIntegrityError")
    /\ UNCHANGED <<agents, ledger, investigations, inflight, now, chain,
                   polVars, uiVars>>

\* manual reconciliation: the affected range is cut off, appends resume
Reconcile ==
    /\ chain.halted
    /\ ledger' = VerifiedPrefix(ledger)
    /\ chain' = [chain EXCEPT !.halted = FALSE]
    /\ lastOp' = Op("reconcile", "-", "OK")
    /\ UNCHANGED <<agents, investigations, inflight, now, polVars, uiVars>>

\* the requests sent while the store is being tampered with
ScreenedCritical == {s \in ScreenedConcurrent : s.risk_level = "CRITICAL"}

IntegrityNext ==
    \/ \E a \in AgentIds : Issue(a)
    \/ \E a \in AgentIds, s \in ScreenedCritical : Evaluate(a, s)
    \/ Purge
    \/ \E a \in AgentIds : Restore(a)
    \/ \E a \in AgentIds : ConfirmBreach(a)
    \/ \E i \in 1..Len(ledger) : Tamper(i, "ALLOW")
    \/ VerifyLedger
    \/ \E a \in AgentIds :
          \E op \in {"evaluate", "restore", "confirmBreach"} : Refuse(op, a)
    \/ Refuse("purge", "-")
    \/ Reconcile

IntegritySpec == Init /\ [][IntegrityNext]_vars

(***************************************************************************)
(* Dashboard (App.jsx): polling and the global purge button                *)
(***************************************************************************)

\* a fetchData call whose GET /agents has not been answered yet
Unanswered == [status |-> "unanswered"]

FetchOf(by) == {f \in app.fetches : f.by = by}

\* fetchData is called: the three GETs are sent
StartFetch(a, by) ==
    [a EXCEPT !.fetches = @ \cup {[by |-> by, data |-> Unanswered]}]

\* setInterval(fetchData, 3000)
PollStart ==
    /\ FetchOf("poll") = {}
    /\ app' = StartFetch(app, "poll")
    /\ UNCHANGED <<govVars, polVars, nodes, sim>>

\* GET /agents is served: the response carries the agent table of that moment
ServeAgents(f) ==
    /\ f \in app.fetches
    /\ f.data = Unanswered
    /\ app' = [app EXCEPT !.fetches = (@ \ {f}) \cup {[f EXCEPT !.data = agents]}]
    /\ UNCHANGED <<govVars, polVars, nodes, sim>>

\* agentsRes.data.some(a => a.status === 'REVOKED')
isLocked(data) == \E a \in AgentIds : data[a].status = "REVOKED"

\* handleGlobalPurge after its await fetchData(): the handler is over
AfterFetch(f, purge) == IF f.by = "purge" THEN "idle" ELSE purge

\* fetchData after Promise.all: setAgents, setLockdown(isLocked)
FetchDone(f) ==
    /\ f \in app.fetches
    /\ f.data # Unanswered
    /\ app' = [app EXCEPT !.agents = f.data, !.lockdown = isLocked(f.data),
                          !.purge = AfterFetch(f, @), !.fetches = @ \ {f}]
    /\ UNCHANGED <<govVars, polVars, nodes, sim>>

\* fetchData, catch: a GET failed, nothing is set
FetchFail(f) ==
    /\ f \in app.fetches
    /\ app' = [app EXCEPT !.purge = AfterFetch(f, @), !.fetches = @ \ {f}]
    /\ UNCHANGED <<govVars, polVars, nodes, sim>>

\* handleGlobalPurge: axios.post(governance/purge) is sent
PurgeClick ==
    /\ app.purge = "idle"
    /\ app' = [app EXCEPT !.purge = "posting"]
    /\ UNCHANGED <<govVars, polVars, nodes, sim>>

\* the control plane serves the POST
PurgeServed ==
    /\ app.purge = "posting"
    /\ PurgeEffect
    /\ app' = [app EXCEPT !.purge = "posted"]
    /\ UNCHANGED <<inflight, now, chain, polVars, nodes, sim>>

\* handleGlobalPurge, catch: the POST failed
PurgeFailed ==
    /\ app.purge = "posting"
    /\ app' = [app EXCEPT !.purge = "idle",
                          !.notification = "Global purge failed"]
    /\ UNCHANGED <<govVars, polVars, nodes, sim>>

\* handleGlobalPurge after the POST: setNotification, setLockdown(true), then
\* await fetchData()
PurgeResumed ==
    /\ app.purge = "posted"
    /\ app' = StartFetch(
                  [app EXCEPT !.lockdown = TRUE, !.purge = "refreshing",
                      !.notification = "Global purge executed. All agents isolated."],
                  "purge")
    /\ UNCHANGED <<govVars, polVars, nodes, sim>>

\* setTimeout(() => setNotification(null), ...)
NotificationExpires ==
    /\ app.notification # "null"
    /\ app' = [app EXCEPT !.notification = "null"]
    /\ UNCHANGED <<govVars, polVars, nodes, sim>>

DashboardNext ==
    \/ \E a \in AgentIds : Issue(a)
    \/ PollStart
    \/ \E f \in app.fetches : ServeAgents(f)
    \/ \E f \in app.fetches : FetchDone(f)
    \/ \E f \in app.fetches : FetchFail(f)
    \/ PurgeClick
    \/ PurgeServed
    \/ PurgeFailed
    \/ PurgeResumed
    \/ NotificationExpires

DashboardSpec == Init /\ [][DashboardNext]_vars

(***************************************************************************)
(* Workload Nodes (WorkloadNodes.jsx): the investigation modal             *)
(***************************************************************************)

MaxRequests == 2

\* an agent of the list that is not REVOKED although its trust is 0
ZeroTrustActive == [AgentAt(0, TRUE) EXCEPT !.status = "Active"]

\* the agent objects the agents prop can hold
CardStates == {NewAgent, AgentAt(0, TRUE), ZeroTrustActive}

\* the agents prop: a card for every agent listed
AgentLists == [AgentIds -> CardStates \cup {NoAgent}]

\* const isRevoked = agent.status === 'REVOKED' || agent.trust === 0
isRevoked(agent) == agent.status = "REVOKED" \/ agent.trust = 0

\* the click is taken for every card that is shown as revoked
CanInvestigate_as_rendered(agent) == isRevoked(agent)

\* handleAgentClick goes on past: if (agent.status !== 'REVOKED') return
CanInvestigate(agent) == agent.status = "REVOKED"

\* the statuses of the investigation that GET .../investigation can return
ServedStatuses == {"UNDER_INVESTIGATION", "RESTORED"}

Ev(kind, id) == [kind |-> kind, id |-> id]

\* the parent renders the component with a new agents prop
Render(list) ==
    /\ list # nodes.agents
    /\ nodes' = [nodes EXCEPT !.agents = list, !.event = Ev("render", "-")]
    /\ UNCHANGED <<govVars, polVars, app, sim>>

FreeSlots == (1..MaxRequests) \ {r.slot : r \in nodes.requests}

\* handleAgentClick up to its await: return, or setLoading(true) and the GET
handleAgentClick(a) ==
    LET agent == nodes.agents[a] IN
    /\ agent # NoAgent
    /\ CanInvestigate(agent) => FreeSlots # {}
    /\ nodes' =
          IF ~CanInvestigate(agent)
          THEN [nodes EXCEPT !.event = Ev("click", a)]
          ELSE [nodes EXCEPT
                   !.loading = TRUE,
                   !.requests = @ \cup {[slot |-> CHOOSE n \in FreeSlots :
                                                     \A m \in FreeSlots : n <= m,
                                          id |-> a, agent |-> agent]},
                   !.event = Ev("click", a)]
    /\ UNCHANGED <<govVars, polVars, app, sim>>

\* handleAgentClick after the await: setSelectedAgent(agent),
\* setInvestigation(response.data), finally setLoading(false)
InvestigationLoaded(r, status) ==
    /\ r \in nodes.requests
    /\ nodes' = [nodes EXCEPT
                    !.selectedAgent = [id |-> r.id, agent |-> r.agent],
                    !.investigation = [agent_id |-> r.id, status |-> status],
                    !.loading = FALSE,
                    !.requests = @ \ {r},
                    !.event = Ev("fetchOk", r.id)]
    /\ UNCHANGED <<govVars, polVars, app, sim>>

\* handleAgentClick, catch and finally: console.error, setLoading(false)
InvestigationFailed(r) ==
    /\ r \in nodes.requests
    /\ nodes' = [nodes EXCEPT !.loading = FALSE, !.requests = @ \ {r},
                              !.event = Ev("fetchFail", r.id)]
    /\ UNCHANGED <<govVars, polVars, app, sim>>

\* {selectedAgent && investigation && (<InvestigationModal ... />)}
ModalOpen(n) == n.selectedAgent # Null /\ n.investigation # Null

\* onClose
ModalClose ==
    /\ ModalOpen(nodes)
    /\ nodes' = [nodes EXCEPT !.selectedAgent = Null, !.investigation = Null,
                              !.event = Ev("close", "-")]
    /\ UNCHANGED <<govVars, polVars, app, sim>>

\* handleRestore, handleConfirmBreach: the POST is sent
ModalPost(op) ==
    /\ ModalOpen(nodes)
    /\ nodes.post = "none"
    /\ nodes' = [nodes EXCEPT !.post = op,
                              !.event = Ev(op, nodes.selectedAgent.id)]
    /\ UNCHANGED <<govVars, polVars, app, sim>>

\* after the POST: both cleared and window.location.reload(), which starts
\* the page again
PostDone ==
    /\ nodes.post # "none"
    /\ nodes' = [NodesInit EXCEPT !.event = Ev("reload", "-")]
    /\ UNCHANGED <<govVars, polVars, app, sim>>

\* handleRestore, handleConfirmBreach, catch: console.error
PostFailed ==
    /\ nodes.post # "none"
    /\ nodes' = [nodes EXCEPT !.post = "none", !.event = Ev("postFail", "-")]
    /\ UNCHANGED <<govVars, polVars, app, sim>>

NodesNext ==
    \/ \E list \in AgentLists : Render(list)
    \/ \E a \in AgentIds : handleAgentClick(a)
    \/ \E r \in nodes.requests, st \in ServedStatuses : InvestigationLoaded(r, st)
    \/ \E r \in nodes.requests : InvestigationFailed(r)
    \/ ModalClose
    \/ \E op \in {"restore", "confirmBreach"} : ModalPost(op)
    \/ PostDone
    \/ PostFailed

NodesSpec == Init /\ [][NodesNext]_vars

(***************************************************************************)
(* Simulator Orchestrator: a scenario run step by step                     *)
(***************************************************************************)

MaxEvents == 2

MaxRuns == 3

Scenarios == {"privilege_escalation", "data_exfiltration"}

\* the events of a scenario, as POST /scenarios/run returns them
EventLists ==
    UNION {[1..n -> {"e1", "e2"}] : n \in 0..MaxEvents}

\* disabled={isRunning}: always clickable
disabled_never(isRunning) == FALSE

\* disabled={isRunning}
disabled(isRunning) == isRunning

\* onClick={() => !isRunning && setSelectedScenario(scenario)}
SelectScenario(s) ==
    /\ ~sim.isRunning
    /\ sim.selectedScenario # [name |-> s]
    /\ sim' = [sim EXCEPT !.selectedScenario = [name |-> s]]
    /\ UNCHANGED <<govVars, polVars, app, nodes>>

\* one entry of liveEvents; run tells the runs apart
LiveEvent(type, event, run) == [type |-> type, event |-> event, run |-> run]

\* runScenarioWithSteps up to its first await: the four sets and the POST
runScenarioWithSteps ==
    /\ sim.selectedScenario # Null
    /\ ~disabled(sim.isRunning)
    /\ sim.started < MaxRuns
    /\ sim' = [sim EXCEPT
                  !.isRunning = TRUE, !.results = Null, !.liveEvents = <<>>,
                  !.currentStep = 0, !.started = @ + 1,
                  !.runs = @ \cup {[id |-> sim.started + 1, pc |-> "post",
                                    events |-> <<>>, i |-> 0]}]
    /\ UNCHANGED <<govVars, polVars, app, nodes>>

\* the run with its fields replaced
Moved(r, to) == [sim EXCEPT !.runs = (@ \ {r}) \cup {to}]

\* setResults(...), then finally: setIsRunning(false), setCurrentStep(0)
Finished(r, results) ==
    [sim EXCEPT !.results = results, !.isRunning = FALSE, !.currentStep = 0,
                !.runs = @ \ {r}]

\* top of the loop body: setCurrentStep(i + 1) and the "attempting" entry
Attempt(r, events, i) ==
    [Moved(r, [r EXCEPT !.pc = "processing", !.events = events, !.i = i])
        EXCEPT !.currentStep = i,
               !.liveEvents = Append(@, LiveEvent("attempting", events[i], r.id))]

\* the POST is answered: the loop starts, or ends at once without events
RunPosted(r, events) ==
    /\ r \in sim.runs
    /\ r.pc = "post"
    /\ sim' = IF events = <<>>
              THEN Finished(r, [events |-> events])
              ELSE Attempt(r, events, 1)
    /\ UNCHANGED <<govVars, polVars, app, nodes>>

\* catch: setResults({ error: ... }), then finally
RunFailed(r) ==
    /\ r \in sim.runs
    /\ r.pc = "post"
    /\ sim' = Finished(r, [error |-> "Failed to execute scenario"])
    /\ UNCHANGED <<govVars, polVars, app, nodes>>

\* after the 1500 ms: the "result" entry
RunResult(r) ==
    /\ r \in sim.runs
    /\ r.pc = "processing"
    /\ sim' = [Moved(r, [r EXCEPT !.pc = "pause"])
                  EXCEPT !.liveEvents =
                             Append(@, LiveEvent("result", r.events[r.i], r.id))]
    /\ UNCHANGED <<govVars, polVars, app, nodes>>

\* after the 1000 ms: the next event, or setResults(scenarioData) and finally
RunNext(r) ==
    /\ r \in sim.runs
    /\ r.pc = "pause"
    /\ sim' = IF r.i < Len(r.events)
              THEN Attempt(r, r.events, r.i + 1)
              ELSE Finished(r, [events |-> r.events])
    /\ UNCHANGED <<govVars, polVars, app, nodes>>

SimulatorNext ==
    \/ \E s \in Scenarios : SelectScenario(s)
    \/ runScenarioWithSteps
    \/ \E r \in sim.runs, events \in EventLists : RunPosted(r, events)
    \/ \E r \in sim.runs : RunFailed(r)
    \/ \E r \in sim.runs : RunResult(r)
    \/ \E r \in sim.runs : RunNext(r)

SimulatorSpec == Init /\ [][SimulatorNext]_vars

(***************************************************************************)
(* Properties of the policy evaluators (under PolicySpec)                  *)
(***************************************************************************)

\* C1: an intent name that no rule matches, evaluated in production, is
\* denied by the v1 evaluator, by the v2 evaluator and by the gateway,
\* whatever the confidence, the trust and the payload
C1_UnknownIntentDeniedInProduction ==
    polReq.environment = "production" =>
        /\ UnmatchedV1(polReq.intent_name) =>
              /\ polRes.v1.decision = "DENY"
              /\ polRes.gateway.decision = "DENY"
        /\ UnmatchedV2(polReq.intent_name) => polRes.v2.decision = "DENY"

\* a production request that neither table matches, sent with full confidence
\* and full trust, has been denied
C1_Witness ==
    /\ polReq.environment = "production"
    /\ polReq.confidence = 100
    /\ polReq.trust = 100
    /\ polReq.data = NoData
    /\ UnmatchedV1(polReq.intent_name)
    /\ UnmatchedV2(polReq.intent_name)
    /\ polRes.v1.decision = "DENY"
    /\ polRes.v2.decision = "DENY"
    /\ polRes.gateway.decision = "DENY"

NonProduction == {"staging", "dev"}

\* C2 as stated: an unmatched intent in staging or dev is escalated by every
\* evaluator, and in no environment allowed
C2_UnknownIntentEscalatedOutsideProduction ==
    /\ (polReq.environment \in NonProduction /\ UnmatchedV1(polReq.intent_name))
          => polRes.v1.decision = "ESCALATE"
    /\ (polReq.environment \in NonProduction /\ UnmatchedV2(polReq.intent_name))
          => polRes.v2.decision = "ESCALATE"
    /\ (polReq # NoRequest /\ UnmatchedV1(polReq.intent_name))
          => polRes.v1.decision # "ALLOW"
    /\ (polReq # NoRequest /\ UnmatchedV2(polReq.intent_name))
          => polRes.v2.decision # "ALLOW"

\* C2 as the code has it: in staging or dev the v2 evaluator escalates an
\* unmatched intent while the v1 evaluator and the gateway deny it as
\* they do in every environment; in no environment is an unmatched intent
\* allowed
C2_UnknownIntentOutsideProduction ==
    /\ (polReq.environment \in NonProduction /\ UnmatchedV2(polReq.intent_name))
          => polRes.v2.decision = "ESCALATE"
    /\ (polReq # NoRequest /\ UnmatchedV1(polReq.intent_name))
          => /\ polRes.v1.decision = "DENY"
             /\ polRes.gateway.decision = "DENY"
    /\ (polReq # NoRequest /\ UnmatchedV2(polReq.intent_name))
          => polRes.v2.decision \in {"DENY", "ESCALATE"}

\* a staging request that neither table matches: escalated by v2, denied by v1
C2_Witness ==
    /\ polReq.environment = "staging"
    /\ UnmatchedV1(polReq.intent_name)
    /\ UnmatchedV2(polReq.intent_name)
    /\ polRes.v2.decision = "ESCALATE"
    /\ polRes.v1.decision = "DENY"

(***************************************************************************)
(* Properties of the trust and isolation tracker (under Spec)              *)
(***************************************************************************)

C5_RevokedIffLevelZeroIffTrustZero ==
    \A a \in Issued(agents) :
        /\ (agents[a].status = "REVOKED") <=> (agents[a].level = 0)
        /\ (agents[a].level = 0) <=> (agents[a].trust = 0)

(***************************************************************************)
(* Properties of the audit ledger                                          *)
(***************************************************************************)

EntryFields ==
    {"id", "timestamp", "ai_id", "intent", "decision", "reason",
     "previous_hash", "current_hash"}

\* what a stored field may be overwritten with: the value any entry of the
\* ledger holds in that field, a flipped decision, or a value never stored
TamperValues(l, f) ==
    {l[j][f] : j \in 1..Len(l)} \cup
    CASE f = "id" -> {0, Len(l) + 1}
      [] f = "timestamp" -> {MaxTime + 1}
      [] f = "ai_id" -> AgentIds \cup {"intruder"}
      [] f = "intent" -> GatewayIntents
      [] f = "decision" -> Decisions
      [] f = "reason" -> {<<"tampered">>}
      [] f = "previous_hash" -> {GenesisHash, <<"forged">>}
      [] f = "current_hash" -> {GenesisHash, <<"forged">>}

\* C6 (under Spec): verify holds of every ledger that append built, and fails
\* once any one stored field of any one entry holds another value
C6_VerifyDetectsAnySingleChange ==
    /\ verify(ledger)
    /\ \A i \in 1..Len(ledger), f \in EntryFields :
          \A v \in TamperValues(ledger, f) :
              v # ledger[i][f] => ~verify([ledger EXCEPT ![i][f] = v])

\* a full ledger with entries of an evaluation and of governance commands
C6_Witness ==
    /\ Len(ledger) = MaxLedger
    /\ \E i \in 1..Len(ledger) : ledger[i].decision = "DENY"
    /\ \E i \in 1..Len(ledger) : ledger[i].decision = "PURGED"
    /\ verify(ledger)
    /\ ~verify([ledger EXCEPT ![1].decision = "ALLOW"])

\* C7 (under ConcSpec): whatever the interleaving of the evaluations, the
\* sequence numbers of the ledger increase strictly, the first entry links
\* to the genesis hash and every later entry to the hash of the entry before
C7_SingleWellFormedChain ==
    /\ \A i, j \in 1..Len(ledger) : i < j => ledger[i].id < ledger[j].id
    /\ ledger # <<>> => ledger[1].previous_hash = GenesisHash
    /\ \A i \in 2..Len(ledger) :
          ledger[i].previous_hash = ledger[i - 1].current_hash

\* an evaluation has just been committed as the third entry while another
\* request of the same agent, sent before that, is still in flight
C7_Witness ==
    \E r \in BagToSet(inflight) :
        /\ lastOp.op = "evaluate"
        /\ lastOp.agent_id = r.agent_id
        /\ Len(ledger) = 3
        /\ \A i \in 1..3 : ledger[i].decision \in Decisions
        /\ \E i \in 1..3 : ledger[i].ai_id # r.agent_id

IsPrefix(s, t) == Len(s) <= Len(t) /\ SubSeq(t, 1, Len(s)) = s

\* C8 (under Spec): no operation removes or changes an entry: the ledger
\* before a step is a prefix of the ledger after it
C8_LedgerAppendOnly == [][IsPrefix(ledger, ledger')]_vars

(***************************************************************************)
(* Properties of restore (under Spec)                                      *)
(***************************************************************************)

C10_RestoreOfOpenInvestigation ==
    [][\A a \in AgentIds :
          (/\ lastOp'.op = "restore"
           /\ lastOp'.agent_id = a
           /\ HasOpenInvestigation(investigations, a))
          => LET k == CurrentInvestigation(investigations, a) IN
             /\ lastOp'.result = "OK"
             /\ agents'[a] = [trust |-> 100, level |-> 10, status |-> "Active",
                              mode |-> "FULL_ACCESS"]
             /\ \A b \in AgentIds \ {a} : agents'[b] = agents[b]
             /\ investigations' = [investigations EXCEPT ![k].status = "RESTORED"]]_vars

\* an agent revoked by its own denials has just been restored while the other
\* agent stays as it was
C10_Witness ==
    \E a \in Issued(agents) :
        /\ lastOp = Op("restore", a, "OK")
        /\ agents[a].trust = 100
        /\ agents[a].mode = "FULL_ACCESS"
        /\ \E k \in 1..Len(investigations) :
              /\ investigations[k].agent_id = a
              /\ investigations[k].status = "RESTORED"
              /\ investigations[k].breach_type = "TRUST_EXHAUSTED"

(***************************************************************************)
(* Properties of the investigations (under Spec)                           *)
(***************************************************************************)

\* the investigation stored at k is CONFIRMED and belongs to agent a
ConfirmedAt(invs, k, a) ==
    /\ k \in 1..Len(invs)
    /\ invs[k].status = "CONFIRMED"
    /\ invs[k].agent_id = a

\* a CONFIRMED investigation is still stored, unchanged, after the step
ConfirmedStays ==
    \A k \in 1..Len(investigations) :
        investigations[k].status = "CONFIRMED"
            => /\ k <= Len(investigations')
               /\ investigations'[k] = investigations[k]

\* after the step the agent of every CONFIRMED investigation is REVOKED with
\* trust 0 and level 0
ConfirmedAgentStaysRevoked ==
    \A a \in AgentIds, k \in 1..Len(investigations') :
        ConfirmedAt(investigations', k, a)
            => /\ agents'[a] # NoAgent
               /\ agents'[a].status = "REVOKED"
               /\ agents'[a].trust = 0
               /\ agents'[a].level = 0

\* restore and confirmBreach on an agent with a CONFIRMED investigation are
\* rejected
ConfirmedRejectsCommands ==
    \A a \in AgentIds, k \in 1..Len(investigations) :
        (/\ ConfirmedAt(investigations, k, a)
         /\ lastOp'.op \in {"restore", "confirmBreach"}
         /\ lastOp'.agent_id = a)
            => lastOp'.result = "IllegalTransitionError"

\* an evaluation does not raise the trust of an agent with a CONFIRMED
\* investigation
ConfirmedTrustNotRaised ==
    \A a \in AgentIds, k \in 1..Len(investigations) :
        (/\ ConfirmedAt(investigations, k, a)
         /\ lastOp'.op = "evaluate"
         /\ lastOp'.agent_id = a)
            => /\ agents'[a] # NoAgent
               /\ agents'[a].trust <= agents[a].trust

\* C11: once confirmBreach has set an investigation to CONFIRMED, it stays
\* CONFIRMED in every later state, its agent stays REVOKED with trust 0 and
\* level 0, every later restore or confirmBreach on it is rejected and no
\* evaluation raises the agent's trust
C11_ConfirmedBreachIsPermanent ==
    [][/\ ConfirmedStays
       /\ ConfirmedAgentStaysRevoked
       /\ ConfirmedRejectsCommands
       /\ ConfirmedTrustNotRaised]_vars

TerminalStatuses == {"CONFIRMED", "FALSE_POSITIVE", "RESTORED"}

NewInvestigations ==
    IF Len(investigations') > Len(investigations)
    THEN (Len(investigations) + 1)..Len(investigations')
    ELSE {}

\* the step takes agent a from ACTIVE to REVOKED
BecomesRevoked(a) ==
    /\ agents[a] # NoAgent
    /\ agents[a].status = "Active"
    /\ agents'[a] # NoAgent
    /\ agents'[a].status = "REVOKED"

\* C13: a step that takes an agent from ACTIVE to REVOKED adds exactly one
\* investigation for it, UNDER_INVESTIGATION, and a step adds no
\* investigation for an agent that it does not take from ACTIVE to REVOKED
C13_InvestigationExactlyOnRevocation ==
    [][/\ \A a \in AgentIds :
             BecomesRevoked(a)
                => /\ Cardinality({k \in NewInvestigations :
                                      investigations'[k].agent_id = a}) = 1
                   /\ \A k \in NewInvestigations :
                         investigations'[k].agent_id = a
                            => investigations'[k].status = "UNDER_INVESTIGATION"
       /\ \A k \in NewInvestigations :
             BecomesRevoked(investigations'[k].agent_id)]_vars

\* the stored investigations of agent a
InvestigationsOf(invs, a) == {k \in 1..Len(invs) : invs[k].agent_id = a}

\* the ledger holds three CRITICAL-risk DENY decisions of agent a and nothing
\* else: since a was issued at trust 100 nothing else has happened
ThreeCriticalDenials(a) ==
    /\ Len(ledger) = 3
    /\ \A i \in 1..3 :
          /\ ledger[i].ai_id = a
          /\ ledger[i].decision = "DENY"
          /\ RiskOf(ledger[i].intent) = "CRITICAL"

\* the three DENY events of the ledger, oldest first
ThreeDenyEvents ==
    [i \in 1..3 |-> [event |-> ledger[i].intent,
                     timestamp |-> ledger[i].timestamp]]

\* C14: three CRITICAL-risk DENY decisions in a row on a freshly issued agent
\* leave it at trust 0 and REVOKED with exactly one investigation, whose
\* evidence timeline holds the three DENY events in the order decided
C14_ThreeCriticalDenialsRevoke ==
    \A a \in Issued(agents) :
        ThreeCriticalDenials(a)
            => /\ agents[a].trust = 0
               /\ agents[a].status = "REVOKED"
               /\ Cardinality(InvestigationsOf(investigations, a)) = 1
               /\ \A k \in InvestigationsOf(investigations, a) :
                     investigations[k].evidence.timeline = ThreeDenyEvents

(***************************************************************************)
(* Properties of purge (under Spec)                                        *)
(***************************************************************************)

\* every issued agent is ACTIVE
FleetActive(tbl) == \A a \in Issued(tbl) : tbl[a].status = "Active"

HasSsn(data) == data # NoData /\ \E i \in 1..Len(data) : MatchSsn(data, i) # 0

\* the screened requests of an outbound intent that policy allows, with a
\* payload that holds an SSN
SsnScreened ==
    { Screen(n, e, c, d) :
        n \in {m \in GatewayIntents : is_outbound_intent(m)},
        e \in {x \in GatewayEnvironments :
                  \A m \in GatewayIntents, k \in GatewayConfidences :
                      is_outbound_intent(m)
                         => PolicyEvaluator_evaluate(m, x, k).decision = "ALLOW"},
        c \in GatewayConfidences,
        d \in {x \in Payloads : HasSsn(x)} }

\* for every payload with an SSN the gateway's scanner reports a finding of
\* type ssn, and the guide's scanner one of type ssn and severity CRITICAL
SsnFindingIsCritical ==
    \A d \in {x \in Payloads : HasSsn(x)} :
        /\ \E k \in 1..Len(Findings[d].gateway) :
              Findings[d].gateway[k].type = "ssn"
        /\ CriticalTypes(Findings[d].gateway) # <<>>
        /\ \E k \in 1..Len(Findings[d].guide) :
              /\ Findings[d].guide[k].type = "ssn"
              /\ Findings[d].guide[k].severity = "CRITICAL"

LabelFields == {"type", "severity", "position", "token_length"}

\* the redacted form shows nothing between its first two and its last two
\* characters
Masked(redacted) == \A k \in 3..(Len(redacted) - 2) : redacted[k] = "*"

\* the text a finding was made of
MatchedText(text, f) == SubSeq(text, f.position[1] + 1, f.position[2])

\* no field of the finding holds the matched text as it was found
NoRawText(text, f) ==
    "position" \in DOMAIN f
        => \A k \in DOMAIN f \ LabelFields : f[k] # MatchedText(text, f)

FindingsSafe(text, findings) ==
    \A k \in 1..Len(findings) :
        /\ Masked(findings[k].redacted)
        /\ NoRawText(text, findings[k])

\* the characters of the texts the findings were made of
MatchedChars(text, findings) ==
    UNION { {MatchedText(text, findings[k])[j] :
                j \in 1..Len(MatchedText(text, findings[k]))} :
            k \in 1..Len(findings) }

\* C17 (under PolicySpec): every finding of every scanner shows the matched
\* text through its redacted field alone, which keeps at most the first two
\* and the last two characters, and the reason the gateway hands to the
\* ledger for a DLP denial holds none of the matched characters
C17_FindingsCarryNoRawText ==
    (polReq # NoRequest /\ polReq.data # NoData)
        => /\ FindingsSafe(json_dumps(polReq.data), polRes.findings.gateway)
           /\ FindingsSafe(polReq.data, polRes.findings.guide)
           /\ FindingsSafe(polReq.data, polRes.findings.enhanced)
           /\ polRes.gateway.layer = "DLP"
                 => \A i \in 1..Len(polRes.gateway.reason) :
                       polRes.gateway.reason[i] \notin
                           MatchedChars(json_dumps(polReq.data),
                                        polRes.findings.gateway)

(***************************************************************************)
(* Projection consistency (under Spec)                                     *)
(***************************************************************************)

\* what the ledger can tell of an investigation
Projected(inv) ==
    [agent_id |-> inv.agent_id, opened_at |-> inv.opened_at,
     breach_type |-> inv.breach_type, status |-> inv.status]

ProjectedAll(invs) == [k \in 1..Len(invs) |-> Projected(invs[k])]

ReplayOpen(invs, agent_id, opened_at, breach_type) ==
    Append(invs, [agent_id |-> agent_id, opened_at |-> opened_at,
                  breach_type |-> breach_type, status |-> "UNDER_INVESTIGATION"])

\* entry i of the ledger applied to the state replayed from the entries before
\* it; an agent is taken to be fresh at its first entry
ReplayEntry(st, l, i) ==
    LET e == l[i]
        a == e.ai_id
        prefix == SubSeq(l, 1, i - 1)
        before == IF st.agents[a] = NoAgent THEN NewAgent ELSE st.agents[a]
    IN CASE e.decision \in Decisions ->
              LET after == apply(before, e.decision, RiskOf(e.intent),
                                 IsRepeat(prefix, a, e.intent, e.timestamp),
                                 HoursSinceLast(prefix, a, e.timestamp))
              IN [agents |-> [st.agents EXCEPT ![a] = after],
                  investigations |->
                      IF before.status # "REVOKED" /\ after.status = "REVOKED"
                      THEN ReplayOpen(st.investigations, a, i, "TRUST_EXHAUSTED")
                      ELSE st.investigations]
         [] e.decision = "PURGED" ->
              [agents |-> [st.agents EXCEPT ![a] = RevokedAgent],
               investigations |->
                   ReplayOpen(st.investigations, a, i, "GLOBAL_SECURITY_INCIDENT")]
         [] e.decision = "RESTORED" ->
              [agents |-> [st.agents EXCEPT ![a] = RestoredAgent],
               investigations |-> Transition(st.investigations, a, "RESTORED")]
         [] e.decision = "CONFIRMED" ->
              [agents |-> [st.agents EXCEPT ![a] = before],
               investigations |-> Transition(st.investigations, a, "CONFIRMED")]
         [] OTHER -> st

\* the state replayed from the first n entries of the ledger
RECURSIVE Replay(_, _)
Replay(l, n) ==
    IF n = 0
    THEN [agents |-> [a \in AgentIds |-> NoAgent], investigations |-> <<>>]
    ELSE ReplayEntry(Replay(l, n - 1), l, n)

\* C18: in every reachable state, replaying the ledger from genesis, entry by
\* entry in sequence order, through the trust and isolation rules and the
\* investigation rules yields exactly the current agent table (trust, level,
\* mode and status of every agent) and the current investigations with their
\* statuses.
C18_LedgerReplayReproducesState ==
    LET replayed == Replay(ledger, Len(ledger)) IN
    /\ replayed.agents = agents
    /\ replayed.investigations = ProjectedAll(investigations)

(***************************************************************************)
(* Properties of concurrent evaluations (under ConcSpec)                   *)
(***************************************************************************)

\* the step appends one entry, the outcome of an evaluation of agent a
EvaluationCommitted(a) ==
    /\ Len(ledger') = Len(ledger) + 1
    /\ ledger'[Len(ledger')].ai_id = a
    /\ ledger'[Len(ledger')].decision \in Decisions

\* the step is a purge: it appends PURGED entries
PurgeStep ==
    /\ Len(ledger') > Len(ledger)
    /\ ledger'[Len(ledger')].decision = "PURGED"

\* the agent was purged and has not been restored since
PurgedAndNotRestored(l, a) ==
    \E i \in 1..Len(l) :
        /\ l[i].ai_id = a
        /\ l[i].decision = "PURGED"
        /\ \A j \in (i + 1)..Len(l) :
              ~(l[j].ai_id = a /\ l[j].decision = "RESTORED")

\* C19: a purge is one step on the whole agent table: after it every agent
\* that existed is REVOKED with trust 0 and level 0, none is left as it was;
\* and an evaluation that was in flight during the purge and completes after
\* it leaves the purged agent REVOKED with trust 0.
C19_PurgeAtomicAgainstEvaluations ==
    [][ /\ PurgeStep =>
              \A a \in Issued(agents) : agents'[a] = RevokedAgent
        /\ \A a \in AgentIds :
              (PurgedAndNotRestored(ledger, a) /\ EvaluationCommitted(a)) =>
                  /\ agents'[a].trust = 0
                  /\ agents'[a].status = "REVOKED"
      ]_vars

\* the agent's entries are outcomes of evaluations only
OnlyEvaluated(l, a) ==
    \A i \in 1..Len(l) : l[i].ai_id = a => l[i].decision \in Decisions

\* C20: when DENY evaluations of one agent run concurrently, each penalty is
\* applied to the trust the penalty before it left (no update is lost), and
\* the entry of an evaluation is appended to the ledger with its trust
\* update, so that the entries stand in the order of the updates.
C20_ConcurrentDenialsBothApplied ==
    [][ \A a \in AgentIds :
          ( /\ agents[a] # NoAgent
            /\ OnlyEvaluated(ledger, a)
            /\ EvaluationCommitted(a)
            /\ ledger'[Len(ledger')].decision = "DENY" ) =>
              LET e == ledger'[Len(ledger')] IN
              /\ IsPrefix(ledger, ledger')
              /\ agents'[a].trust =
                    apply_penalty(agents[a].trust,
                        get_intent_risk_cost(RiskOf(e.intent))
                        + (IF IsRepeat(ledger, a, e.intent, e.timestamp)
                           THEN RepeatPenalty ELSE 0))
      ]_vars

(***************************************************************************)
(* Atomicity of an evaluation (under Spec)                                 *)
(***************************************************************************)

\* the step changes the record of agent a
AgentChanged(a) ==
    /\ agents[a] # NoAgent
    /\ agents'[a] # NoAgent
    /\ agents'[a] # agents[a]

\* the step opens an investigation for a trust that ran out
OpensTrustInvestigation(a) ==
    \E k \in NewInvestigations :
        /\ investigations'[k].agent_id = a
        /\ investigations'[k].breach_type = "TRUST_EXHAUSTED"

PurgeHandlerFinishes == app.purge = "refreshing" /\ app'.purge = "idle"

\* the step is the successful end of a poll
PollSucceeds ==
    \E f \in FetchOf("poll") :
        /\ f.data # Unanswered
        /\ app'.fetches = app.fetches \ {f}
        /\ app'.agents = f.data

\* a purge has gone through and its agents are still REVOKED
FleetRevoked ==
    /\ Issued(agents) # {}
    /\ \A a \in Issued(agents) :
          PurgedAndNotRestored(ledger, a) => agents[a].status = "REVOKED"
    /\ \E a \in Issued(agents) : PurgedAndNotRestored(ledger, a)

\* C23: after the POST to governance/purge has succeeded the lockdown flag
\* is true when handleGlobalPurge finishes, its forced refresh included, and
\* it is true after every successful poll that ends while the purged agents
\* are REVOKED.
C23_LockdownShownAfterPurge ==
    [][ /\ PurgeHandlerFinishes => app'.lockdown
        /\ (PollSucceeds /\ FleetRevoked /\ app.purge = "idle") => app'.lockdown
      ]_vars

(***************************************************************************)
(* Properties of the v1 pipeline (under PolicySpec)                        *)
(***************************************************************************)

\* the request names a rule of the v1 table of risk CRITICAL, with a
\* confidence at or above the threshold, in production
CriticalInProduction ==
    /\ polReq.environment = "production"
    /\ FindIntent(V1Intents, polReq.intent_name) # NoRule
    /\ FindIntent(V1Intents, polReq.intent_name).risk_level = "CRITICAL"
    /\ polReq.confidence >= confidence_threshold

\* C22: PolicyEvaluator.evaluate of a known CRITICAL intent with sufficient
\* confidence in production returns DENY with the reason "Critical actions
\* blocked in production by default".
C22_CriticalDeniedInProduction ==
    CriticalInProduction =>
        polRes.v1 = Verdict("DENY",
                        <<"Critical actions blocked in production by default">>)

\* the checks of the v1 pipeline on a rule, each by itself
ConfidenceCheck(confidence) ==
    IF confidence < confidence_threshold THEN "DENY" ELSE "ALLOW"

ApprovalCheck(rule, environment) ==
    IF human_approval_required(environment)
       /\ rule.risk_level \in {"HIGH", "CRITICAL"}
    THEN "ESCALATE" ELSE "ALLOW"

CriticalCheck(rule, environment) ==
    IF environment = "production" /\ rule.risk_level = "CRITICAL"
    THEN "DENY" ELSE "ALLOW"

MostRestrictive(outcomes) ==
    IF "DENY" \in outcomes THEN "DENY"
    ELSE IF "ESCALATE" \in outcomes THEN "ESCALATE"
    ELSE "ALLOW"

\* C24: for a request that names a rule of the v1 table, evaluate returns the
\* most restrictive of the outcomes of its checks under DENY > ESCALATE >
\* ALLOW: ALLOW only if no check yields DENY or ESCALATE, ESCALATE only if no
\* check yields DENY.
C24_MostRestrictiveOutcome ==
    LET rule == FindIntent(V1Intents, polReq.intent_name) IN
    (polReq # NoRequest /\ rule # NoRule) =>
        polRes.v1.decision =
            MostRestrictive({ ConfidenceCheck(polReq.confidence),
                              ApprovalCheck(rule, polReq.environment),
                              CriticalCheck(rule, polReq.environment) })

\* the request names a rule of the v1 table and lacks a field it requires
MissingRequiredField ==
    LET rule == FindIntent(V1Intents, polReq.intent_name) IN
    /\ polReq # NoRequest
    /\ rule # NoRule
    /\ ~(rule.required_fields \subseteq polReq.fields)

\* C25: for a matched rule, an intent that lacks at least one of the rule's
\* required fields is denied by evaluate, whatever the confidence and the
\* environment, and never allowed.
C25_MissingRequiredFieldDenied ==
    MissingRequiredField => polRes.v1.decision = "DENY"

(***************************************************************************)
(* Penalties (under Spec)                                                  *)
(***************************************************************************)

\* the step commits a DENY of agent a
DenialCommitted(a) ==
    /\ agents[a] # NoAgent
    /\ EvaluationCommitted(a)
    /\ ledger'[Len(ledger')].decision = "DENY"

\* the entry follows a DENY of the same intent of the same agent, that DENY
\* being the agent's latest entry and less than the window old
FollowsDenialOfSameIntent(a, e) ==
    \E k \in 1..Len(ledger) :
        /\ ledger[k].ai_id = a
        /\ \A j \in (k + 1)..Len(ledger) : ledger[j].ai_id # a
        /\ ledger[k].decision = "DENY"
        /\ ledger[k].intent = e.intent
        /\ e.timestamp - ledger[k].timestamp < RepeatWindow

C27_NoAppendAfterMismatch ==
    [][ (chain.halted /\ lastOp'.op # "reconcile") =>
            /\ ledger' = ledger
            /\ lastOp'.op \in {"evaluate", "purge", "restore", "confirmBreach"}
                  => (agents' = agents /\ investigations' = investigations)
      ]_vars

\* an evaluation has just been refused on a ledger with a rewritten entry
C27_Witness ==
    /\ chain.halted
    /\ ~verify(ledger)
    /\ lastOp.op = "evaluate"
    /\ lastOp.result = "ChainIntegrityError"
    /\ Len(ledger) < MaxLedger

(***************************************************************************)
(* Evidence of an investigation                                            *)
(***************************************************************************)

\* the step is one of the four operations that act on agents under
\* investigation
GovernanceStep ==
    lastOp'.op \in {"evaluate", "purge", "restore", "confirmBreach"}

\* every investigation stored before the step is stored after it, at the
\* same place, for the same agent, opened at the same sequence number and
\* with the same evidence
EvidenceKept ==
    \A k \in 1..Len(investigations) :
        /\ k <= Len(investigations')
        /\ investigations'[k].agent_id = investigations[k].agent_id
        /\ investigations'[k].opened_at = investigations[k].opened_at
        /\ investigations'[k].evidence = investigations[k].evidence

\* the step revokes agent a, which was not REVOKED before
RevokedAnew(a) ==
    /\ agents[a] # NoAgent
    /\ agents[a].status # "REVOKED"
    /\ agents'[a] # NoAgent
    /\ agents'[a].status = "REVOKED"

\* C28: the evidence of an investigation is fixed when it is opened: no
\* evaluation, purge, restore or confirmBreach changes the evidence of an
\* investigation already stored, and a later revocation of the same agent
\* adds a new investigation behind the stored ones.
C28_EvidenceFixedAtOpen ==
    [][GovernanceStep =>
          /\ EvidenceKept
          /\ \A a \in AgentIds :
                RevokedAnew(a) =>
                    \E k \in (Len(investigations) + 1)..Len(investigations') :
                        investigations'[k].agent_id = a]_vars

\* an agent revoked, restored and revoked again: both investigations are
\* stored, the older one RESTORED with the evidence taken when it was opened
C28_Witness ==
    \E a \in AgentIds :
        \E j, k \in 1..Len(investigations) :
            /\ j < k
            /\ investigations[j].agent_id = a
            /\ investigations[k].agent_id = a
            /\ investigations[j].status = "RESTORED"
            /\ investigations[k].status = "UNDER_INVESTIGATION"
            /\ investigations[j].opened_at < investigations[k].opened_at
            /\ investigations[j].evidence.previous_status = "Active"
            /\ lastOp.op \in {"evaluate", "purge"}

(***************************************************************************)
(* The investigation modal of Workload Nodes (under NodesSpec)             *)
(***************************************************************************)

\* the handler that has just run is a click on a card whose agent is not
\* REVOKED
ClickedNotRevoked ==
    /\ nodes'.event.kind = "click"
    /\ nodes.agents[nodes'.event.id].status # "REVOKED"

\* C29: the investigation modal is open only for an agent whose status was
\* REVOKED when it was clicked and whose investigation was fetched, and it
\* opens only when such a fetch succeeds; a click on an agent that is not
\* REVOKED, also one shown as revoked for its trust of 0, sends no request
\* and changes no state; a failed fetch leaves selectedAgent and
\* investigation as they are and sets loading to false.
C29_ModalOnlyForRevokedAndFetched ==
    [][/\ ModalOpen(nodes') =>
             /\ nodes'.selectedAgent.agent.status = "REVOKED"
             /\ nodes'.investigation.agent_id = nodes'.selectedAgent.id
       /\ (~ModalOpen(nodes) /\ ModalOpen(nodes')) =>
             /\ nodes'.event = Ev("fetchOk", nodes'.selectedAgent.id)
             /\ \E r \in nodes.requests :
                   /\ r \notin nodes'.requests
                   /\ r.id = nodes'.selectedAgent.id
                   /\ r.agent = nodes'.selectedAgent.agent
       /\ ClickedNotRevoked =>
             nodes' = [nodes EXCEPT !.event = nodes'.event]
       /\ nodes'.event.kind = "fetchFail" =>
             /\ nodes'.selectedAgent = nodes.selectedAgent
             /\ nodes'.investigation = nodes.investigation
             /\ nodes'.loading = FALSE]_vars

\* the modal is open for one agent, and the click that has just been handled
\* was on another agent, shown as revoked although its status is Active
C29_Witness ==
    /\ ModalOpen(nodes)
    /\ nodes.event.kind = "click"
    /\ nodes.event.id # nodes.selectedAgent.id
    /\ nodes.agents[nodes.event.id] = ZeroTrustActive
    /\ isRevoked(nodes.agents[nodes.event.id])
    /\ nodes.requests = {}
    /\ ~nodes.loading

(***************************************************************************)
(* Scenario runs of the Simulator Orchestrator (under SimulatorSpec)       *)
(***************************************************************************)

\* attempting(e1), result(e1), ..., attempting(en), result(en) of one run
EventTrace(events, run) ==
    [j \in 1..(2 * Len(events)) |->
        [type |-> IF j % 2 = 1 THEN "attempting" ELSE "result",
         event |-> events[(j + 1) \div 2],
         run |-> run]]

\* the entries a run has added when it stands at r.pc in step r.i
AddedBy(r) ==
    CASE r.pc = "post" -> 0
      [] r.pc = "processing" -> 2 * r.i - 1
      [] r.pc = "pause" -> 2 * r.i

\* liveEvents holds the entries of the one run under way, in order, and after
\* a run that came to its end, all of its entries
LiveEventsInOrder(s) ==
    /\ \A r \in s.runs :
          s.liveEvents = SubSeq(EventTrace(r.events, r.id), 1, AddedBy(r))
    /\ (s.runs = {} /\ s.results # Null /\ "events" \in DOMAIN s.results)
          => s.liveEvents = EventTrace(s.results.events, s.started)

====
